---- MODULE Spec2Model ----
(***************************************************************************)
(* The client-side scripts of kartopu_blog.  The projection calculators:   *)
(*   static/js/portfolio_sim.js   steady-withdrawal simulator              *)
(*   static/js/sorr-analyzer.js   withdrawal (sequence-of-returns) analyzer*)
(*   static/js/fire_logic.js      goal-date solver (withdrawal-rate form)  *)
(*   unnamed/part_001             goal-date solver (multiplier form)       *)
(* and three widgets of static/js/base.js, each modelled on a page of its  *)
(* own: the navbar, the social-login modal and the reaction widget.        *)
(*                                                                         *)
(* Each script runs on its own page.  A handler of the page (an input      *)
(* event, a click, a theme change) runs to completion, so it is one        *)
(* action.  JavaScript numbers are idealised as exact rationals that       *)
(* overflow to an infinity beyond a largest magnitude.                     *)
(***************************************************************************)
EXTENDS Integers, Sequences, FiniteSets, TLC

VARIABLES
    page,       \* which calculator page is loaded
    inputs,     \* the form fields of the page, by id
    lastWType,  \* sorr-analyzer.js: the closure variable lastWType
    display,    \* what the last run handed to updateUI / updateChart / displayResults
    url,        \* the query echoed with history.replaceState
    before,     \* history: the display replaced by the last run when that run
                \* found the fields as the run before it, NoRun otherwise
    unrun,      \* history: the input events since the last run
    legacy,     \* history: the 'multiplier' parameter of the query the page
                \* was loaded with
    navbar,     \* base.js: the window and the closure of the navbar block
    modal,      \* base.js: the social-login modal, its closure and the popup
    widget,     \* base.js: the reaction widget as the page shows it
    requests,   \* base.js: the reaction POSTs of the current burst, in click
                \* order, with what became of each
    lastEvent   \* history: the last event of the social-login page and
                \* whether its handlers called window.location.reload()

vars ==
    <<page, inputs, lastWType, display, url, before, unrun, legacy,
      navbar, modal, widget, requests, lastEvent>>

\* the state of the calculators
calcVars == <<inputs, lastWType, display, url, before, unrun, legacy>>

\* the state of the widgets of base.js
baseVars == <<navbar, modal, widget, requests, lastEvent>>

\* the value of a variable whose script or element is not on the page
NotOnPage == [absent |-> TRUE]

\* a calculator page: the widgets of base.js are left out
NoBase ==
    /\ navbar = NotOnPage
    /\ modal = NotOnPage
    /\ widget = NotOnPage
    /\ requests = <<>>
    /\ lastEvent = NotOnPage

\* a page of base.js: no calculator
NoCalc ==
    /\ inputs = NotOnPage
    /\ lastWType = "none"
    /\ display = NotOnPage
    /\ url = <<>>
    /\ before = [none |-> TRUE]
    /\ unrun = 0
    /\ legacy = NotOnPage

(***************************************************************************)
(* Numbers.  A finite number is <<n, d>> with d > 0 in lowest terms.       *)
(* NaN is <<0, 0>>, Infinity is <<1, 0>> and -Infinity is <<-1, 0>>.       *)
(***************************************************************************)
\* the largest magnitude of a finite number (Number.MAX_VALUE, scaled down):
\* a result beyond it is an infinity
MaxDouble == 10000000

Abs(n) == IF n < 0 THEN -n ELSE n
Sign(n) == IF n > 0 THEN 1 ELSE IF n < 0 THEN -1 ELSE 0

RECURSIVE Gcd(_, _)
Gcd(a, b) == IF b = 0 THEN a ELSE Gcd(b, a % b)

Norm(n, d) ==
    IF d = 1 THEN <<n, 1>>
    ELSE LET g == Gcd(Abs(n), Abs(d))
             s == IF d < 0 THEN -1 ELSE 1
         IN  <<(s * n) \div g, (s * d) \div g>>

Whole(n) == <<n, 1>>
Zero == Whole(0)
One == Whole(1)
NaN == <<0, 0>>
Infinity == <<1, 0>>
IsFinite(a) == a[2] > 0

\* the result of an operation on finite numbers: an infinity on overflow
Fit(x) ==
    LET q == Abs(x[1]) \div x[2]
    IN  IF q > MaxDouble \/ (q = MaxDouble /\ Abs(x[1]) % x[2] > 0)
        THEN <<Sign(x[1]), 0>>
        ELSE x

\* the IEEE rules for NaN and the infinities, the exact result otherwise
RAdd(a, b) ==
    IF a[2] > 0 /\ b[2] > 0
    THEN Fit(Norm(a[1] * b[2] + b[1] * a[2], a[2] * b[2]))
    ELSE IF a = NaN \/ b = NaN THEN NaN
    ELSE IF a[2] > 0 THEN b
    ELSE IF b[2] > 0 \/ a = b THEN a
    ELSE NaN
RSub(a, b) ==
    IF a[2] > 0 /\ b[2] > 0
    THEN Fit(Norm(a[1] * b[2] - b[1] * a[2], a[2] * b[2]))
    ELSE RAdd(a, <<-b[1], b[2]>>)
\* (common factors are cancelled before the product is taken)
RMul(a, b) ==
    IF a[2] > 0 /\ b[2] > 0
    THEN LET g == Gcd(Abs(a[1]), b[2])
             h == Gcd(Abs(b[1]), a[2])
         IN  Fit(<<(a[1] \div g) * (b[1] \div h),
                   (a[2] \div h) * (b[2] \div g)>>)
    ELSE <<Sign(a[1]) * Sign(b[1]), 0>>
\* x / 0 is an infinity for x # 0 (the zero is +0), and 0 / 0 is NaN
RDiv(a, b) ==
    IF a[2] > 0 /\ b[2] > 0
    THEN (IF b[1] = 0 THEN <<Sign(a[1]), 0>>
          ELSE Fit(Norm(a[1] * b[2], a[2] * b[1])))
    ELSE IF a[2] > 0 THEN (IF b = NaN THEN NaN ELSE Zero)
    ELSE IF b[2] > 0 THEN <<a[1] * (IF b[1] < 0 THEN -1 ELSE 1), 0>>
    ELSE NaN
\* a comparison with NaN is false
RLt(a, b) == a # NaN /\ b # NaN /\ a # b /\ RSub(a, b)[1] < 0
RLe(a, b) == a # NaN /\ b # NaN /\ (a = b \/ RSub(a, b)[1] < 0)
RMax(a, b) == IF a = NaN \/ b = NaN THEN NaN ELSE IF RLt(a, b) THEN b ELSE a

(***************************************************************************)
(* Form fields.  The text of a field is blank, a text that is no number,   *)
(* or a decimal number.                                                    *)
(***************************************************************************)
Blank == [kind |-> "blank", val |-> Zero]
Junk == [kind |-> "text", val |-> Zero]
\* no such parameter in the query
Absent == [kind |-> "absent", val |-> Zero]
\* a number written with one decimal, as toFixed(1) writes it
Fixed1(v) == [kind |-> "num.1", val |-> v]
Num(n) == [kind |-> "num", val |-> Whole(n)]
Frac(n, d) == [kind |-> "num", val |-> Norm(n, d)]

\* a variant that reads the parameter from the query the previous run left
FieldValueFromUrl(in, id) == IF id \in DOMAIN url THEN url[id] ELSE Blank

\* document.getElementById(id).value, read from the fields in
FieldValue(in, id) == in[id]

\* the truthiness of input.value: a non-empty string
NonEmpty(f) == f.kind # "blank"

\* parseFloat(field.value)
parseFloat(f) == IF f.kind \in {"num", "num.1"} THEN f.val ELSE NaN

\* parseInt(field.value): the integer part, the fraction dropped
parseInt(f) ==
    IF f.kind = "num"
    THEN LET q == Abs(f.val[1]) \div f.val[2]
         IN  Whole(IF f.val[1] < 0 THEN -q ELSE q)
    ELSE NaN

\* a variant without the fallback
OrElseNothing(x, dflt) == x

\* x || dflt on numbers: 0 and NaN are falsy
OrElse(x, dflt) == IF x = NaN \/ x = Zero THEN dflt ELSE x

Hundred == Whole(100)

(***************************************************************************)
(* Bounds of the model.                                                    *)
(***************************************************************************)
\* the largest horizon typed into a 'period' field
MaxPeriod == 2

\* the most input events in a row that the analyzer leaves without a run
MaxUnrun == 1

\* a value no run has produced yet
NoRun == [none |-> TRUE]

\* let depletionYear = null: the empty set; a recorded year y is {y}
Null == {}

(***************************************************************************)
(* portfolio_sim.js: the steady-withdrawal simulator.                      *)
(***************************************************************************)
SimDefaultPeriod == 30

SimFieldIds == {"pv", "rc", "rd", "w", "period"}

\* the texts a field of the simulator form can hold
SimTexts(id) ==
    CASE id = "pv" -> {Blank, Num(-100), Num(100)}
      [] id = "rc" -> {Blank, Num(-100), Num(-300)}
      [] id = "rd" -> {Blank, Num(-100)}
      [] id = "w" -> {Blank, Junk, Num(-500), Num(-300), Num(50), Num(100)}
      [] id = "period" ->
            {Blank, Num(0), Num(-2), Frac(5, 2)} \cup {Num(k) : k \in 1..MaxPeriod}

SimForms ==
    [pv : SimTexts("pv"), rc : SimTexts("rc"), rd : SimTexts("rd"),
     w : SimTexts("w"), period : SimTexts("period")]

\* lines 29-33: the parsed values
SimParse(in) ==
    [pv |-> OrElse(parseFloat(FieldValue(in, "pv")), Zero),
     rc |-> RDiv(OrElse(parseFloat(FieldValue(in, "rc")), Zero), Hundred),
     rd |-> RDiv(OrElse(parseFloat(FieldValue(in, "rd")), Zero), Hundred),
     w |-> OrElse(parseFloat(FieldValue(in, "w")), Zero),
     period |->
        OrElse(parseInt(FieldValue(in, "period")), Whole(SimDefaultPeriod))[1]]

\* lines 54-60: the locals of a run as the loop is entered
SimLocals(pv) ==
    [year |-> 1,
     currentBalance |-> pv,
     depletionYear |-> Null,
     balances |-> <<pv>>,
     labels |-> <<0>>]

\* a variant that adds the withdrawal
SimPreClampAdded(balance, rc, rd, w) ==
    RAdd(RMul(balance, RAdd(RAdd(One, rc), rd)), w)

\* line 61: the balance of the year before it is clamped
SimPreClamp(balance, rc, rd, w) ==
    RSub(RMul(balance, RAdd(RAdd(One, rc), rd)), w)

\* a variant that records every clamp
SimRecordLast(depletionYear, year) == {year}

\* line 65: the first clamp is recorded, a later one is not
SimRecord(depletionYear, year) ==
    IF depletionYear = Null THEN {year} ELSE depletionYear

\* lines 61-69 and year++: one pass of the loop body
SimYear(s, p) ==
    LET pre == SimPreClamp(s.currentBalance, p.rc, p.rd, p.w)
        clamped == RLt(pre, Zero)
        bal == IF clamped THEN Zero ELSE pre
    IN  [year |-> s.year + 1,
         currentBalance |-> bal,
         depletionYear |->
            IF clamped THEN SimRecord(s.depletionYear, s.year)
            ELSE s.depletionYear,
         balances |-> Append(s.balances, bal),
         labels |-> Append(s.labels, s.year)]

\* line 60: the passes while year <= k
RECURSIVE SimYears(_, _, _)
SimYears(s, p, k) == IF s.year > k THEN s ELSE SimYears(SimYear(s, p), p, k)

\* lines 54-70: the locals after the passes for year = 1..k
SimLoop(p, k) == SimYears(SimLocals(p.pv), p, k)

\* a variant that asks for a final balance above the one before
SimIsGrowingStrict(balances) ==
    LET n == Len(balances)
    IN  IF n >= 2 THEN RLt(balances[n - 1], balances[n]) ELSE TRUE

\* lines 72-77: balances[length-1] < balances[length-2]; a comparison with the
\* undefined entry of a one-entry sequence is false
SimIsGrowing(balances) ==
    LET n == Len(balances)
    IN  IF n >= 2 THEN ~RLt(balances[n], balances[n - 1]) ELSE TRUE

\* lines 96-108: the status line of updateUI
SimStatus(depletionYear, isGrowing) ==
    IF depletionYear # Null THEN "depletes"
    ELSE IF isGrowing THEN "lasts forever"
    ELSE "declines"

\* lines 124-131 (and sorr-analyzer.js 205-212): the chart points drawn as the
\* depletion point, as 0-based indexes into data
Highlighted(data) ==
    {i \in 0..(Len(data) - 1) :
        data[i + 1] = Zero /\ (i = 0 \/ RLt(Zero, data[i]))}

\* lines 54-81: the loop on the parsed values p, with updateUI and updateChart
SimResults(p) ==
    LET s == SimLoop(p, p.period)
        isGrowing == SimIsGrowing(s.balances)
    IN  [horizon |-> p.period,
         balances |-> s.balances,
         labels |-> s.labels,
         depletionYear |-> s.depletionYear,
         isGrowing |-> isGrowing,
         status |-> SimStatus(s.depletionYear, isGrowing),
         finalBalance |-> s.balances[Len(s.balances)],
         dividendAmount |-> RMul(p.pv, p.rd),
         withdrawalRate |->
            IF RLt(Zero, p.pv) THEN RMul(RDiv(p.w, p.pv), Hundred) ELSE Zero,
         highlighted |-> Highlighted(s.balances)]

\* lines 28-81: runSimulation; the fields are parsed once
SimRunSimulation(in) ==
    CHOOSE results \in {SimResults(p) : p \in {SimParse(in)}} : TRUE

\* a variant that echoes every field, the empty ones too
UrlOfEveryField(in) == in

\* lines 45-52 (sorr-analyzer.js 111-119): the query holds the non-empty fields
\* (a select always has a value)
UrlOf(in) ==
    [id \in {i \in DOMAIN in :
                i \in {"w_type", "scenario"} \/ NonEmpty(in[i])} |-> in[id]]

\* lines 17-26: the fields are loaded from the query and the first run is made
SimInit ==
    /\ NoBase
    /\ page = "portfolio_sim"
    /\ inputs \in SimForms
    /\ lastWType = "none"
    /\ url = UrlOf(inputs)
    /\ display = SimRunSimulation(inputs)
    /\ before = NoRun
    /\ unrun = 0
    /\ legacy = Absent

\* line 22: an input event on a field (the text typed or pasted may be the
\* one the field held)
SimInput ==
    /\ page = "portfolio_sim"
    /\ \E id \in SimFieldIds : \E t \in SimTexts(id) :
          inputs' = [inputs EXCEPT ![id] = t]
    /\ display' = SimRunSimulation(inputs')
    /\ url' = UrlOf(inputs')
    /\ before' = IF inputs' = inputs THEN display ELSE NoRun
    /\ UNCHANGED <<page, lastWType, unrun, legacy>>
    /\ UNCHANGED baseVars

\* lines 196-206: a change of data-theme runs the simulation again
SimThemeChange ==
    /\ page = "portfolio_sim"
    /\ display' = SimRunSimulation(inputs)
    /\ url' = UrlOf(inputs)
    /\ before' = display
    /\ UNCHANGED <<page, inputs, lastWType, unrun, legacy>>
    /\ UNCHANGED baseVars

SimNext == SimInput \/ SimThemeChange

(***************************************************************************)
(* sorr-analyzer.js: the withdrawal analyzer.                              *)
(***************************************************************************)
SorrDefaultPeriod == 30

\* the number of leading years whose normal variates are chosen freely; the
\* later years repeat them in the same order
MaxDraws == 1

\* values of sqrt(-2 ln u) cos(2 pi v), line 88, for uniform u, v in (0, 1)
NormSamples == {Whole(-1), Whole(0)}

Draws == [1..MaxDraws -> NormSamples]

SorrFieldIds ==
    {"pv", "w_type", "w", "inf", "avg_ret", "std_dev", "scenario", "period"}

\* the texts (for the two selects: the option values) a field can hold
SorrTexts(id) ==
    CASE id = "pv" -> {Num(-100), Num(100000)}
      [] id = "w_type" -> {"amount", "rate"}
      [] id = "w" -> {Blank, Num(100)}
      [] id = "inf" -> {Blank, Num(-200)}
      [] id = "avg_ret" -> {Blank, Num(-100)}
      [] id = "std_dev" -> {Blank, Num(100)}
      [] id = "scenario" -> {"fixed", "bad", "random"}
      [] id = "period" -> {Blank, Num(-2)} \cup {Num(k) : k \in 1..MaxPeriod}

\* the fields the modelled user edits once the page is loaded
SorrEditedIds == {"w_type", "w", "scenario"}

SorrForms ==
    [pv : SorrTexts("pv"), w_type : SorrTexts("w_type"), w : SorrTexts("w"),
     inf : SorrTexts("inf"), avg_ret : SorrTexts("avg_ret"),
     std_dev : SorrTexts("std_dev"), scenario : SorrTexts("scenario"),
     period : SorrTexts("period")]

\* forms loaded from a query with a present value near the largest number
\* and a withdrawal rate above 100%: the initial withdrawal is beyond it
SorrLargeForms ==
    [pv : {Num(10000000)}, w_type : {"rate"}, w : {Num(200)},
     inf : {Blank, Num(-100)}, avg_ret : {Blank}, std_dev : {Blank},
     scenario : {"fixed", "random"}, period : {Num(MaxPeriod)}]

\* a variant that leaves the w field as it is on a change of w_type
SorrWithdrawalFieldKept(in, last) == in.w

\* lines 58-66: on a change of w_type the w field gets the default of the type
SorrWithdrawalField(in, last) ==
    IF in.w_type # last
    THEN (IF in.w_type = "amount" THEN Num(40000) ELSE Num(4))
    ELSE in.w

\* lines 49-81: updateWithdrawalDisplays, as the fields it leaves
SorrUpdateWithdrawalDisplays(in, last) ==
    [in EXCEPT !.w = SorrWithdrawalField(in, last)]

\* a variant that leaves the deviation out of the scaling
boxMullerUnscaled(mean, std, num) == RAdd(num, mean)

\* lines 83-90: boxMuller, num being the variate of line 88
boxMuller(mean, std, num) == RAdd(RMul(num, std), mean)

\* lines 93-108: the parsed values
SorrParse(in) ==
    LET pv == OrElse(parseFloat(FieldValue(in, "pv")), Zero)
        wValue == OrElse(parseFloat(FieldValue(in, "w")), Zero)
    IN  [pv |-> pv,
         wInitial |->
            IF FieldValue(in, "w_type") = "rate"
            THEN RMul(pv, RDiv(wValue, Hundred))
            ELSE wValue,
         inf |-> RDiv(OrElse(parseFloat(FieldValue(in, "inf")), Zero), Hundred),
         avgRet |->
            RDiv(OrElse(parseFloat(FieldValue(in, "avg_ret")), Zero), Hundred),
         stdDev |->
            RDiv(OrElse(parseFloat(FieldValue(in, "std_dev")), Zero), Hundred),
         scenario |-> FieldValue(in, "scenario"),
         period |->
            OrElse(parseInt(FieldValue(in, "period")),
                   Whole(SorrDefaultPeriod))[1]]

\* lines 129-136: the return of the year
SorrReturn(p, year, draws) ==
    IF p.scenario = "bad"
    THEN (CASE year = 1 -> Norm(-15, 100)
            [] year = 2 -> Norm(-10, 100)
            [] year = 3 -> Norm(-5, 100)
            [] OTHER -> p.avgRet)
    ELSE IF p.scenario = "random"
    THEN boxMuller(p.avgRet, p.stdDev, draws[((year - 1) % MaxDraws) + 1])
    ELSE p.avgRet

\* lines 121-128: the locals of a run as the loop is entered
SorrLocals(pv, wInitial) ==
    [year |-> 1,
     currentBalance |-> pv,
     currentW |-> wInitial,
     depletionYear |-> Null,
     cumulativeWithdrawal |-> Zero,
     balances |-> <<pv>>,
     labels |-> <<0>>]

\* lines 139-142: the amount withdrawn at the start of the year
SorrWithdrawal(currentBalance, currentW) ==
    IF RLt(currentBalance, currentW) THEN RMax(Zero, currentBalance)
    ELSE currentW

\* lines 152-158: the year is recorded when the balance is zero, no year is
\* recorded yet and less than the nominal withdrawal was withdrawn
SorrRecord(depletionYear, year, currentBalance, withdrawalThisYear, currentW) ==
    IF currentBalance = Zero /\ depletionYear = Null
       /\ RLt(withdrawalThisYear, currentW)
    THEN {year}
    ELSE depletionYear

\* lines 129-160 and year++: one pass of the loop body
SorrYear(s, p, draws) ==
    LET ret == SorrReturn(p, s.year, draws)
        withdrawalThisYear == SorrWithdrawal(s.currentBalance, s.currentW)
        grown == RMul(RSub(s.currentBalance, withdrawalThisYear), RAdd(One, ret))
        bal == IF RLt(grown, Zero) THEN Zero ELSE grown
    IN  [year |-> s.year + 1,
         currentBalance |-> bal,
         currentW |-> RMul(s.currentW, RAdd(One, p.inf)),
         depletionYear |->
            SorrRecord(s.depletionYear, s.year, bal, withdrawalThisYear,
                       s.currentW),
         cumulativeWithdrawal |->
            RAdd(s.cumulativeWithdrawal, withdrawalThisYear),
         balances |-> Append(s.balances, bal),
         labels |-> Append(s.labels, s.year)]

\* line 128: the passes while year <= k
RECURSIVE SorrYears(_, _, _, _)
SorrYears(s, p, draws, k) ==
    IF s.year > k THEN s ELSE SorrYears(SorrYear(s, p, draws), p, draws, k)

\* lines 121-161: the locals after the passes for year = 1..k
SorrLoop(p, draws, k) == SorrYears(SorrLocals(p.pv, p.wInitial), p, draws, k)

\* lines 176-190: the status line of updateUI
SorrStatus(depletionYear, balances) ==
    IF depletionYear # Null THEN "depletes"
    ELSE IF RLt(balances[1], balances[Len(balances)]) THEN "keeps growing"
    ELSE "declines"

\* lines 121-165: the loop on the parsed values p, with updateUI and
\* updateChart
SorrResults(p, draws) ==
    LET s == SorrLoop(p, draws, p.period)
    IN  [horizon |-> p.period,
         balances |-> s.balances,
         labels |-> s.labels,
         depletionYear |-> s.depletionYear,
         cumulativeWithdrawal |-> s.cumulativeWithdrawal,
         status |-> SorrStatus(s.depletionYear, s.balances),
         finalBalance |-> s.balances[Len(s.balances)],
         highlighted |-> Highlighted(s.balances)]

\* lines 92-165: runSimulation; the fields are parsed once
SorrRunSimulation(in, draws) ==
    CHOOSE results \in {SorrResults(p, draws) : p \in {SorrParse(in)}} : TRUE

\* the uniform draws matter to a run of the random scenario only
DrawsFor(in) ==
    IF in.scenario = "random" THEN Draws ELSE {[i \in 1..MaxDraws |-> Zero]}

\* lines 19-47: the fields are loaded from the query, lastWType is read from
\* the w_type field, and the first run is made
SorrInit ==
    /\ NoBase
    /\ page = "sorr"
    /\ inputs \in SorrForms \cup SorrLargeForms
    /\ lastWType = inputs.w_type
    /\ url = UrlOf(inputs)
    /\ \E draws \in DrawsFor(inputs) : display = SorrRunSimulation(inputs, draws)
    /\ before = NoRun
    /\ unrun = 0
    /\ legacy = Absent

\* lines 28-38: an input event on a field; the random scenario is not run
SorrInput ==
    /\ page = "sorr"
    /\ \E id \in SorrEditedIds : \E t \in SorrTexts(id) :
          inputs' = SorrUpdateWithdrawalDisplays([inputs EXCEPT ![id] = t],
                                                 lastWType)
    /\ lastWType' = inputs'.w_type
    /\ IF inputs'.scenario # "random"
       THEN /\ display' = SorrRunSimulation(inputs', [i \in 1..MaxDraws |-> Zero])
            /\ url' = UrlOf(inputs')
            /\ unrun' = 0
            /\ before' = IF inputs' = inputs THEN display ELSE NoRun
       ELSE /\ unrun < MaxUnrun
            /\ unrun' = unrun + 1
            /\ before' = NoRun
            /\ UNCHANGED <<display, url>>
    /\ UNCHANGED <<page, legacy>>
    /\ UNCHANGED baseVars

\* line 43 (a click on run-btn) and lines 277-287 (a change of data-theme):
\* runSimulation alone
SorrRerun ==
    /\ page = "sorr"
    /\ \E draws \in DrawsFor(inputs) : display' = SorrRunSimulation(inputs, draws)
    /\ url' = UrlOf(inputs)
    /\ before' = display
    /\ unrun' = 0
    /\ UNCHANGED <<page, inputs, lastWType, legacy>>
    /\ UNCHANGED baseVars

SorrNext == SorrInput \/ SorrRerun

(***************************************************************************)
(* fire_logic.js: the goal-date solver, fed with a withdrawal rate.        *)
(* The status texts are named in English:                                  *)
(*   "computing"            Hesaplaniyor...                                *)
(*   "must enter spending"  Gider girmelisiniz                             *)
(*   "goal already met"     Zaten Ozgursunuz!                              *)
(*   "unreachable"          Asla (Gelir yetersiz)                          *)
(*   "none"                 statusOverride is null                         *)
(***************************************************************************)
FireDefaultRate == 4

\* x.toFixed(1) for a finite x: the nearest tenth, the larger one of two
\* nearest in magnitude
toFixed1(x) ==
    LET q == (2 * 10 * Abs(x[1]) + x[2]) \div (2 * x[2])
    IN  Fixed1(Norm(IF x[1] < 0 THEN -q ELSE q, 10))

FireFieldIds == {"pv", "income", "monthly_spending", "r", "withdrawal_rate"}

FireTexts(id) ==
    CASE id = "pv" -> {Blank, Num(1000), Num(3000000)}
      [] id = "income" -> {Blank, Num(50), Num(2100), Num(MaxDouble)}
      [] id = "monthly_spending" -> {Blank, Num(0), Num(-100), Num(100)}
      [] id = "r" -> {Blank, Num(-5), Num(409500), Frac(13183625, 1024)}
      [] id = "withdrawal_rate" -> {Blank, Num(4), Num(-4)}

\* the legacy parameter of a query
FireMultipliers == {Absent, Junk, Num(25), Num(30)}

FireQueries ==
    [pv : FireTexts("pv"), income : FireTexts("income"),
     monthly_spending : FireTexts("monthly_spending"), r : FireTexts("r"),
     withdrawal_rate : FireTexts("withdrawal_rate"),
     multiplier : FireMultipliers]

\* lines 9-12: the withdrawal_rate field written from a legacy multiplier;
\* (NaN).toFixed(1) is the text "NaN"
FireLegacyRate(multiplier) ==
    IF parseFloat(multiplier) = NaN THEN Junk
    ELSE toFixed1(RDiv(Hundred, parseFloat(multiplier)))

\* lines 6-18: the fields as loaded from the query
FireLoad(q) ==
    [pv |-> q.pv, income |-> q.income,
     monthly_spending |-> q.monthly_spending, r |-> q.r,
     withdrawal_rate |->
        IF q.multiplier # Absent THEN FireLegacyRate(q.multiplier)
        ELSE q.withdrawal_rate]

\* Math.pow(x, 1/12) where x is the twelfth power of a small fraction
RECURSIVE RPow(_, _)
RPow(x, k) == IF k = 0 THEN One ELSE RMul(x, RPow(x, k - 1))
Root12(x) ==
    CHOOSE q \in {Norm(n, d) : n \in 1..3, d \in 1..2} : RPow(q, 12) = x

\* Math.log(x) / Math.log(b) for x > 0 and b > 1: the whole number k when
\* x = b^k with 0 <= k <= 3, and else the unevaluated quotient <<x, b>>;
\* Math.log(NaN) is NaN and Math.log(Infinity) is Infinity
LogQuotient(x, b) ==
    IF x[2] = 0 THEN x
    ELSE IF \E k \in 0..3 : RPow(b, k) = x
    THEN Whole(CHOOSE k \in 0..3 : RPow(b, k) = x)
    ELSE <<x[1], x[2], b[1], b[2]>>

\* months < 0 for a finite number or an unevaluated quotient (b > 1)
IsNegative(m) ==
    IF Len(m) = 4 THEN m[1] < m[2] ELSE m[2] > 0 /\ m[1] < 0

\* lines 32-39: the parsed values
FireParse(in) ==
    LET income == OrElse(parseFloat(FieldValue(in, "income")), Zero)
        monthlySpending ==
            OrElse(parseFloat(FieldValue(in, "monthly_spending")), Zero)
        withdrawalRate ==
            OrElse(parseFloat(FieldValue(in, "withdrawal_rate")),
                   Whole(FireDefaultRate))
    IN  [pv |-> OrElse(parseFloat(FieldValue(in, "pv")), Zero),
         income |-> income,
         pmt |-> RSub(income, monthlySpending),
         r |-> RDiv(OrElse(parseFloat(FieldValue(in, "r")), Zero), Hundred),
         spending |-> RMul(monthlySpending, Whole(12)),
         multiplier |-> RDiv(Hundred, withdrawalRate)]

\* line 56: the target amount
FireGoal(spending, multiplier) == RMul(spending, multiplier)

\* a variant that asks for no text in any field of the form
FireIsInputEmptyAll(in) == \A id \in DOMAIN in : ~NonEmpty(in[id])

\* line 60: no text in any of the three fields
FireIsInputEmpty(in) ==
    ~NonEmpty(in.pv) /\ ~NonEmpty(in.income) /\ ~NonEmpty(in.monthly_spending)

\* a variant whose linear case leaves the present value out
FireSolveFromNothing(pv, pmt, r, goal) ==
    LET monthlyRate ==
            IF RLt(Zero, r) THEN RSub(Root12(RAdd(One, r)), One) ELSE Zero
    IN  IF RLe(monthlyRate, Zero)
        THEN (IF RLe(pmt, Zero)
              THEN [months |-> Infinity, statusOverride |-> "unreachable"]
              ELSE [months |-> RDiv(goal, pmt), statusOverride |-> "none"])
        ELSE LET numerator == RAdd(goal, RDiv(pmt, monthlyRate))
                 denominator == RAdd(pv, RDiv(pmt, monthlyRate))
             IN  IF RLe(denominator, Zero) \/ RLe(numerator, Zero)
                 THEN [months |-> Infinity, statusOverride |-> "unreachable"]
                 ELSE [months |->
                          LogQuotient(RDiv(numerator, denominator),
                                      RAdd(One, monthlyRate)),
                       statusOverride |-> "none"]

\* a variant whose linear case divides by any contribution
FireSolveDividing(pv, pmt, r, goal) ==
    LET monthlyRate ==
            IF RLt(Zero, r) THEN RSub(Root12(RAdd(One, r)), One) ELSE Zero
    IN  IF RLe(monthlyRate, Zero)
        THEN [months |-> RDiv(RSub(goal, pv), pmt), statusOverride |-> "none"]
        ELSE LET numerator == RAdd(goal, RDiv(pmt, monthlyRate))
                 denominator == RAdd(pv, RDiv(pmt, monthlyRate))
             IN  IF RLe(denominator, Zero) \/ RLe(numerator, Zero)
                 THEN [months |-> Infinity, statusOverride |-> "unreachable"]
                 ELSE [months |->
                          LogQuotient(RDiv(numerator, denominator),
                                      RAdd(One, monthlyRate)),
                       statusOverride |-> "none"]

\* lines 72-93 (part_001 lines 64-85): the months to the goal when it is not
\* met yet
FireSolve(pv, pmt, r, goal) ==
    LET monthlyRate ==
            IF RLt(Zero, r) THEN RSub(Root12(RAdd(One, r)), One) ELSE Zero
    IN  IF RLe(monthlyRate, Zero)
        THEN (IF RLe(pmt, Zero)
              THEN [months |-> Infinity, statusOverride |-> "unreachable"]
              ELSE [months |-> RDiv(RSub(goal, pv), pmt),
                    statusOverride |-> "none"])
        ELSE LET numerator == RAdd(goal, RDiv(pmt, monthlyRate))
                 denominator == RAdd(pv, RDiv(pmt, monthlyRate))
             IN  IF RLe(denominator, Zero) \/ RLe(numerator, Zero)
                 THEN [months |-> Infinity, statusOverride |-> "unreachable"]
                 ELSE [months |->
                          LogQuotient(RDiv(numerator, denominator),
                                      RAdd(One, monthlyRate)),
                       statusOverride |-> "none"]

\* a variant that looks at the goal before the spending
FireOutcomeGoalFirst(isInputEmpty, spending, pv, pmt, r, goal) ==
    IF isInputEmpty
    THEN [months |-> Infinity, statusOverride |-> "computing"]
    ELSE IF RLe(goal, pv)
    THEN [months |-> Zero, statusOverride |-> "goal already met"]
    ELSE IF RLe(spending, Zero)
    THEN [months |-> Infinity, statusOverride |-> "must enter spending"]
    ELSE FireSolve(pv, pmt, r, goal)

\* a variant that gives up on a non-positive rate and contribution before it
\* looks at the goal
FireOutcomeRateFirst(isInputEmpty, spending, pv, pmt, r, goal) ==
    IF isInputEmpty
    THEN [months |-> Infinity, statusOverride |-> "computing"]
    ELSE IF RLe(spending, Zero)
    THEN [months |-> Infinity, statusOverride |-> "must enter spending"]
    ELSE IF RLe(r, Zero) /\ RLe(pmt, Zero)
    THEN [months |-> Infinity, statusOverride |-> "unreachable"]
    ELSE IF RLe(goal, pv)
    THEN [months |-> Zero, statusOverride |-> "goal already met"]
    ELSE FireSolve(pv, pmt, r, goal)

\* lines 57-94 (part_001 lines 49-86): the cases in their order
FireOutcome(isInputEmpty, spending, pv, pmt, r, goal) ==
    IF isInputEmpty
    THEN [months |-> Infinity, statusOverride |-> "computing"]
    ELSE IF RLe(spending, Zero)
    THEN [months |-> Infinity, statusOverride |-> "must enter spending"]
    ELSE IF RLe(goal, pv)
    THEN [months |-> Zero, statusOverride |-> "goal already met"]
    ELSE FireSolve(pv, pmt, r, goal)

\* lines 132-149 (part_001 lines 111-128): which branch of displayResults
\* writes the years and the date
FireShown(months, statusOverride) ==
    IF statusOverride # "none" THEN "status"
    ELSE IF months = Infinity \/ months = NaN \/ IsNegative(months)
    THEN "fallback"
    ELSE "date"

\* lines 56-97 and 99-150: the cases on the parsed values p, with
\* displayResults
FireResults(p, isInputEmpty) ==
    LET goal == FireGoal(p.spending, p.multiplier)
        o == FireOutcome(isInputEmpty, p.spending, p.pv, p.pmt, p.r, goal)
    IN  [months |-> o.months,
         statusOverride |-> o.statusOverride,
         goal |-> goal,
         annualSpending |-> p.spending,
         savings |-> p.pmt,
         savingsRate |->
            IF RLt(Zero, p.income)
            THEN RMax(Zero, RMul(RDiv(p.pmt, p.income), Hundred))
            ELSE Zero,
         shown |-> FireShown(o.months, o.statusOverride)]

\* lines 23-97: calculateFire; the fields are parsed once
calculateFire(in) ==
    CHOOSE results \in {FireResults(p, FireIsInputEmpty(in)) :
                           p \in {FireParse(in)}} : TRUE

\* lines 42-54: the query; a withdrawal_rate of "4" is left out
FireUrl(in) ==
    [id \in {i \in FireFieldIds :
                /\ NonEmpty(in[i])
                /\ (i = "withdrawal_rate" => in[i] # Num(FireDefaultRate))}
        |-> in[id]]

\* lines 6-21: the fields are loaded from the query and the first run is made
FireInit ==
    /\ NoBase
    /\ page = "fire"
    /\ \E q \in FireQueries :
          /\ inputs = FireLoad(q)
          /\ legacy = q.multiplier
    /\ lastWType = "none"
    /\ url = FireUrl(inputs)
    /\ display = calculateFire(inputs)
    /\ before = NoRun
    /\ unrun = 0

\* line 17: an input event on a field
FireInput ==
    /\ page = "fire"
    /\ \E id \in FireFieldIds : \E t \in FireTexts(id) :
          inputs' = [inputs EXCEPT ![id] = t]
    /\ display' = calculateFire(inputs')
    /\ url' = FireUrl(inputs')
    /\ before' = IF inputs' = inputs THEN display ELSE NoRun
    /\ UNCHANGED <<page, lastWType, unrun, legacy>>
    /\ UNCHANGED baseVars

FireNext == FireInput

(***************************************************************************)
(* unnamed/part_001: the goal-date solver, fed with a multiplier.          *)
(***************************************************************************)
MultDefaultMultiplier == 25

MultFieldIds == {"pv", "pmt", "monthly_spending", "r", "multiplier"}

MultTexts(id) ==
    CASE id = "pv" -> {Blank, Num(1000)}
      [] id = "pmt" -> {Blank, Num(2000)}
      [] id = "monthly_spending" -> {Blank, Num(100)}
      [] id = "r" -> {Blank, Num(409500)}
      [] id = "multiplier" -> {Blank, Junk, Num(25), Num(30)}

MultForms ==
    [pv : MultTexts("pv"), pmt : MultTexts("pmt"),
     monthly_spending : MultTexts("monthly_spending"), r : MultTexts("r"),
     multiplier : MultTexts("multiplier")]

\* part_001 lines 26-31: the parsed values
MultParse(in) ==
    [pv |-> OrElse(parseFloat(FieldValue(in, "pv")), Zero),
     pmt |-> OrElse(parseFloat(FieldValue(in, "pmt")), Zero),
     r |-> RDiv(OrElse(parseFloat(FieldValue(in, "r")), Zero), Hundred),
     spending |->
        RMul(OrElse(parseFloat(FieldValue(in, "monthly_spending")), Zero),
             Whole(12)),
     multiplier |->
        OrElse(parseFloat(FieldValue(in, "multiplier")),
               Whole(MultDefaultMultiplier))]

\* part_001 line 52
MultIsInputEmpty(in) ==
    ~NonEmpty(in.pv) /\ ~NonEmpty(in.pmt) /\ ~NonEmpty(in.monthly_spending)

\* part_001 lines 48-89 and 91-129: the cases on the parsed values p, with
\* displayResults
MultResults(p, isInputEmpty) ==
    LET goal == FireGoal(p.spending, p.multiplier)
        o == FireOutcome(isInputEmpty, p.spending, p.pv, p.pmt, p.r, goal)
    IN  [months |-> o.months,
         statusOverride |-> o.statusOverride,
         goal |-> goal,
         annualSpending |-> p.spending,
         shown |-> FireShown(o.months, o.statusOverride)]

\* part_001 lines 18-89: calculateFire; the fields are parsed once
MultCalculateFire(in) ==
    CHOOSE results \in {MultResults(p, MultIsInputEmpty(in)) :
                           p \in {MultParse(in)}} : TRUE

\* part_001 lines 34-46: the query; a multiplier of "25" is left out
MultUrl(in) ==
    [id \in {i \in MultFieldIds :
                /\ NonEmpty(in[i])
                /\ (i = "multiplier" => in[i] # Num(MultDefaultMultiplier))}
        |-> in[id]]

\* part_001 lines 6-16
MultInit ==
    /\ NoBase
    /\ page = "fire_multiplier"
    /\ inputs \in MultForms
    /\ legacy = Absent
    /\ lastWType = "none"
    /\ url = MultUrl(inputs)
    /\ display = MultCalculateFire(inputs)
    /\ before = NoRun
    /\ unrun = 0

\* part_001 line 12: an input event on a field
MultInput ==
    /\ page = "fire_multiplier"
    /\ \E id \in MultFieldIds : \E t \in MultTexts(id) :
          inputs' = [inputs EXCEPT ![id] = t]
    /\ display' = MultCalculateFire(inputs')
    /\ url' = MultUrl(inputs')
    /\ before' = IF inputs' = inputs THEN display ELSE NoRun
    /\ UNCHANGED <<page, lastWType, unrun, legacy>>
    /\ UNCHANGED baseVars

MultNext == MultInput

(***************************************************************************)
(* The calculators: one of the pages is loaded, then its handlers run.     *)
(***************************************************************************)
(***************************************************************************)
(* base.js, lines 146-207: the navbar of a page with a .site-header.       *)
(***************************************************************************)
\* the largest scroll position of the window
MaxScroll == 2

\* the most updateNavbar callbacks requested and not yet run
MaxFrames == 3

\* line 153-155: setTopState
setTopState(classes, isAtTop) ==
    IF isAtTop THEN classes \cup {"navbar-at-top"}
    ELSE classes \ {"navbar-at-top"}

\* a variant that hides the header on every viewport
updateNavbarEveryViewport(n) ==
    LET scrollTop == n.scrollY
        isAtTop == scrollTop <= 0
        classes == setTopState(n.classes, isAtTop)
    IN  [n EXCEPT
            !.classes =
                IF isAtTop \/ scrollTop < n.lastScrollTop
                THEN (classes \ {"navbar-hidden"}) \cup {"navbar-visible"}
                ELSE IF scrollTop > n.lastScrollTop
                THEN (classes \ {"navbar-visible"}) \cup {"navbar-hidden"}
                ELSE classes,
            !.lastScrollTop = scrollTop,
            !.ticking = FALSE]

\* lines 157-184: updateNavbar
updateNavbar(n) ==
    LET scrollTop == n.scrollY
        isAtTop == scrollTop <= 0
        classes == setTopState(n.classes, isAtTop)
    IN  IF ~n.matches
        THEN [n EXCEPT
                !.classes =
                    (classes \ {"navbar-hidden"}) \cup {"navbar-visible"},
                !.lastScrollTop = scrollTop,
                !.ticking = FALSE]
        ELSE [n EXCEPT
                !.classes =
                    IF isAtTop \/ scrollTop < n.lastScrollTop
                    THEN (classes \ {"navbar-hidden"}) \cup {"navbar-visible"}
                    ELSE IF scrollTop > n.lastScrollTop
                    THEN (classes \ {"navbar-visible"}) \cup {"navbar-hidden"}
                    ELSE classes,
                !.lastScrollTop = scrollTop,
                !.ticking = FALSE]

\* a variant that raises the flag and requests no frame
onScrollNoFrame(n) == [n EXCEPT !.ticking = TRUE]

\* lines 186-191: onScroll
onScroll(n) ==
    IF ~n.ticking
    THEN [n EXCEPT !.frames = n.frames + 1, !.ticking = TRUE]
    ELSE n

\* lines 193-199: onMediaChange
onMediaChange(n) ==
    [n EXCEPT !.lastScrollTop = n.scrollY, !.frames = n.frames + 1]

\* lines 150-151, 201-206: the block has run; the page may be loaded
\* scrolled, on either viewport
NavbarInit ==
    /\ page = "navbar"
    /\ NoCalc
    /\ \E y \in 0..MaxScroll, mobile \in BOOLEAN :
          navbar = onMediaChange(
                      [scrollY |-> y,
                       matches |-> mobile,
                       lastScrollTop |-> 0,
                       ticking |-> FALSE,
                       frames |-> 0,
                       classes |-> setTopState({"navbar-visible"}, y <= 0)])
    /\ modal = NotOnPage
    /\ widget = NotOnPage
    /\ requests = <<>>
    /\ lastEvent = NotOnPage

\* line 204: the window is scrolled and the scroll event is handled
NavbarScroll ==
    /\ page = "navbar"
    /\ \E y \in 0..MaxScroll :
          /\ y # navbar.scrollY
          /\ navbar' = onScroll([navbar EXCEPT !.scrollY = y])
    /\ UNCHANGED <<page, calcVars, modal, widget, requests, lastEvent>>

\* line 205: the viewport crosses 599px and the change event is handled
NavbarMediaChange ==
    /\ page = "navbar"
    /\ navbar.frames < MaxFrames
    /\ navbar' = onMediaChange([navbar EXCEPT !.matches = ~navbar.matches])
    /\ UNCHANGED <<page, calcVars, modal, widget, requests, lastEvent>>

\* lines 188, 198: a requested animation frame runs updateNavbar
NavbarFrame ==
    /\ page = "navbar"
    /\ navbar.frames > 0
    /\ navbar' = updateNavbar([navbar EXCEPT !.frames = navbar.frames - 1])
    /\ UNCHANGED <<page, calcVars, modal, widget, requests, lastEvent>>

NavbarNext == NavbarScroll \/ NavbarMediaChange \/ NavbarFrame

(***************************************************************************)
(* base.js, lines 243-320 and 879-889: the social-login modal of a page    *)
(* with login buttons, and the social-auth listeners of every page.        *)
(***************************************************************************)
\* the most polling timers alive at once
MaxTimers == 2

\* the origins a message event can carry: the page's own, or another
Origins == {"own", "other"}

\* event.data: the string of line 55, the object of line 324, or another
\* string or object
MessageData ==
    {[str |-> "social-auth:complete"], [type |-> "social-login-complete"],
     [str |-> "hello"], [type |-> "hello"]}

\* event.key of a storage event
StorageKeys == {"social-auth-complete", "theme-preference"}

\* an event that carries no data
NoData == [str |-> ""]

\* lines 243-247: the page as loaded; reloading tells that the running
\* handler has called window.location.reload()
LoginLoaded ==
    [isOpen |-> FALSE, pendingReload |-> FALSE, popup |-> "none",
     timers |-> 0, reloading |-> FALSE]

\* window.location.reload()
reload(m) == [m EXCEPT !.reloading = TRUE]

\* a variant that reloads at once, the modal open or not
requestReloadAtOnce(m) == reload(m)

\* lines 250-256: requestReload
requestReload(m) ==
    IF m.isOpen THEN [m EXCEPT !.pendingReload = TRUE] ELSE reload(m)

\* lines 258-261: openModal
openModal(m) == [m EXCEPT !.isOpen = TRUE]

\* lines 263-270: closeModal
closeModal(m) ==
    IF m.pendingReload
    THEN reload([m EXCEPT !.isOpen = FALSE, !.pendingReload = FALSE])
    ELSE [m EXCEPT !.isOpen = FALSE]

\* lines 314-319: the message listener of the modal block
onLoginMessage(m, origin, data) ==
    IF origin # "own" THEN m
    ELSE IF "type" \in DOMAIN data /\ data.type = "social-login-complete"
    THEN requestReload(m)
    ELSE m

\* lines 879-883: the message listener of the social auth callbacks
onAuthMessage(m, origin, data) ==
    IF data = [str |-> "social-auth:complete"] THEN reload(m) ELSE m

\* lines 885-889: the storage listener
onStorage(m, key) == IF key = "social-auth-complete" THEN reload(m) ELSE m

\* the page once the handler has returned: loaded anew when the handler
\* called window.location.reload()
AfterHandler(m) == IF m.reloading THEN LoginLoaded ELSE m

\* the record of an event and of what its handlers did
Handled(event, origin, data, m) ==
    [event |-> event, origin |-> origin, data |-> data,
     reloaded |-> m.reloading]

\* lines 243-247: the page is loaded, the modal closed
LoginInit ==
    /\ page = "login"
    /\ NoCalc
    /\ navbar = NotOnPage
    /\ modal = LoginLoaded
    /\ widget = NotOnPage
    /\ requests = <<>>
    /\ lastEvent = Handled("load", "own", NoData, LoginLoaded)

\* lines 272-274: a click on a login button
LoginOpen ==
    /\ page = "login"
    /\ modal' = AfterHandler(openModal(modal))
    /\ lastEvent' = Handled("open", "own", NoData, openModal(modal))
    /\ UNCHANGED <<page, calcVars, navbar, widget, requests>>

\* lines 276-284: a click on the close button or on the backdrop
LoginClose ==
    /\ page = "login"
    /\ modal' = AfterHandler(closeModal(modal))
    /\ lastEvent' = Handled("close", "own", NoData, closeModal(modal))
    /\ UNCHANGED <<page, calcVars, navbar, widget, requests>>

\* lines 287-311: a click on a provider link; window.open returns the popup,
\* or null, and then the page navigates to the provider
LoginLink ==
    /\ page = "login"
    /\ \E popup \in BOOLEAN :
          LET closed == closeModal(modal)
          IN  IF popup
              THEN /\ modal.timers < MaxTimers
                   /\ modal' =
                        AfterHandler([closed EXCEPT !.popup = "open",
                                                    !.timers = modal.timers + 1])
                   /\ lastEvent' = Handled("link", "own", NoData, closed)
              ELSE /\ modal' = LoginLoaded
                   /\ lastEvent' = Handled("navigate", "own", NoData, closed)
    /\ UNCHANGED <<page, calcVars, navbar, widget, requests>>

\* the popup is closed, by its script (lines 62-64, 327) or by the user
LoginPopupCloses ==
    /\ page = "login"
    /\ modal.popup = "open"
    /\ modal' = [modal EXCEPT !.popup = "closed"]
    /\ lastEvent' = Handled("popup closes", "own", NoData, modal)
    /\ UNCHANGED <<page, calcVars, navbar, widget, requests>>

\* lines 305-310: a polling timer finds the popup closed
LoginPoll ==
    /\ page = "login"
    /\ modal.timers > 0
    /\ modal.popup = "closed"
    /\ LET polled == requestReload([modal EXCEPT !.timers = modal.timers - 1])
       IN  /\ modal' = AfterHandler(polled)
           /\ lastEvent' = Handled("poll", "own", NoData, polled)
    /\ UNCHANGED <<page, calcVars, navbar, widget, requests>>

\* lines 314-319 and 879-883: a message event, handled by the two listeners
\* in the order they were added
LoginMessage ==
    /\ page = "login"
    /\ \E origin \in Origins, data \in MessageData :
          LET handled ==
                  onAuthMessage(onLoginMessage(modal, origin, data), origin,
                                data)
          IN  /\ modal' = AfterHandler(handled)
              /\ lastEvent' = Handled("message", origin, data, handled)
    /\ UNCHANGED <<page, calcVars, navbar, widget, requests>>

\* lines 885-889: a storage event
LoginStorage ==
    /\ page = "login"
    /\ \E key \in StorageKeys :
          /\ modal' = AfterHandler(onStorage(modal, key))
          /\ lastEvent' =
                Handled("storage", "own", [str |-> key], onStorage(modal, key))
    /\ UNCHANGED <<page, calcVars, navbar, widget, requests>>

LoginNext ==
    \/ LoginOpen
    \/ LoginClose
    \/ LoginLink
    \/ LoginPopupCloses
    \/ LoginPoll
    \/ LoginMessage
    \/ LoginStorage

(***************************************************************************)
(* base.js, lines 334-445: the reaction widget of a post, for a reader who *)
(* may react.  The endpoint is not part of these sources: a response is    *)
(* any payload, or a failure.                                              *)
(***************************************************************************)
\* the most POSTs of a burst: a click that finds every response arrived
\* starts a new burst
MaxRequests == 2

\* the largest count a payload or the rendered page holds
MaxCount == 1

\* button.dataset.reaction of the reaction cards
ReactionKeys == {"like", "love"}

\* payload.counts: the same count for every reaction, or a count for one
\* reaction only
CountMaps ==
    {[button \in keys |-> c] :
        keys \in {ReactionKeys, {"like"}}, c \in 0..MaxCount}

\* the body of an OK response
Payloads == [selected : ReactionKeys \cup {""}, counts : CountMaps]

\* the ways a POST fails: fetch rejects, response.ok is false, or
\* response.json() rejects
Failures == {"network error", "not ok", "unparseable"}

\* the payload of a request that has none, or whose payload is not kept
NoPayload == [none |-> TRUE]

\* the texts of the note
Note(text, label) == [text |-> text, label |-> label]

\* lines 357-380: applySelection
applySelection(w, reactionKey) ==
    [w EXCEPT
        !.pressed = {button \in ReactionKeys : button = reactionKey},
        !.note = IF reactionKey # "" THEN Note("left", reactionKey)
                 ELSE Note("choose", "")]

\* lines 382-390: applyCounts
applyCounts(w, counts) ==
    [w EXCEPT
        !.counts =
            [button \in ReactionKeys |->
                IF button \in DOMAIN counts THEN counts[button] ELSE 0]]

\* lines 407-410: the reaction a click on the card reactionKey sends
nextReaction(currentSelected, reactionKey) ==
    IF currentSelected = reactionKey THEN "" ELSE reactionKey

\* lines 430-434: the payload of an OK response is applied
onPayload(w, payload) ==
    applyCounts(applySelection([w EXCEPT !.selected = payload.selected],
                               payload.selected),
                payload.counts)

\* a variant that also takes the selection back
onFailureDeselecting(w) ==
    [w EXCEPT !.selected = "", !.pressed = {}, !.note = Note("error", "")]

\* lines 435-440: the catch block
onFailure(w) == [w EXCEPT !.note = Note("error", "")]

\* the requests still without a response
Pending(reqs) == {i \in 1..Len(reqs) : reqs[i].state = "pending"}

\* lines 392-394: the widget as rendered, with applySelection(initialSelected)
ReactionInit ==
    /\ page = "reaction"
    /\ NoCalc
    /\ navbar = NotOnPage
    /\ modal = NotOnPage
    /\ \E selected \in ReactionKeys \cup {""},
          counts \in [ReactionKeys -> 0..MaxCount] :
          widget = applySelection([selected |-> selected,
                                   pressed |-> {},
                                   counts |-> counts,
                                   note |-> Note("choose", "")],
                                  selected)
    /\ requests = <<>>
    /\ lastEvent = NotOnPage

\* lines 403-424: a click on a reaction card sends the POST
ReactionClick ==
    /\ page = "reaction"
    /\ \E reactionKey \in ReactionKeys :
          LET burst == IF Pending(requests) = {} THEN <<>> ELSE requests
          IN  /\ Len(burst) < MaxRequests
              /\ requests' =
                    Append(burst,
                           [key |-> reactionKey,
                            reaction |->
                                nextReaction(widget.selected, reactionKey),
                            state |-> "pending",
                            payload |-> NoPayload])
    /\ UNCHANGED <<page, calcVars, navbar, modal, widget, lastEvent>>

\* lines 426-434: an OK response arrives, of any request still waiting; the
\* payload answering the latest click is kept
ReactionResponse ==
    /\ page = "reaction"
    /\ \E i \in Pending(requests), payload \in Payloads :
          /\ widget' = onPayload(widget, payload)
          /\ requests' =
                [requests EXCEPT
                    ![i].state = "ok",
                    ![i].payload =
                        IF i = Len(requests) THEN payload ELSE NoPayload]
    /\ UNCHANGED <<page, calcVars, navbar, modal, lastEvent>>

\* lines 426-428, 435-440: a request fails
ReactionFailure ==
    /\ page = "reaction"
    /\ \E i \in Pending(requests), failure \in Failures :
          /\ widget' = onFailure(widget)
          /\ requests' = [requests EXCEPT ![i].state = failure]
    /\ UNCHANGED <<page, calcVars, navbar, modal, lastEvent>>

ReactionNext == ReactionClick \/ ReactionResponse \/ ReactionFailure

Init == SimInit \/ SorrInit \/ FireInit \/ MultInit \/ NavbarInit
        \/ LoginInit \/ ReactionInit
Next == SimNext \/ SorrNext \/ FireNext \/ MultNext \/ NavbarNext
        \/ LoginNext \/ ReactionNext
Spec == Init /\ [][Next]_vars

(***************************************************************************)
(* Properties of the projection engine.                                    *)
(***************************************************************************)
Simulators == {"portfolio_sim", "sorr"}

\* the pages of the four calculators
Calculators == Simulators \cup {"fire", "fire_multiplier"}

\* the display shows the run on the fields as they are
Fresh == unrun = 0

\* the least element of a non-empty set of years
First(S) == CHOOSE i \in S : \A j \in S : i <= j

\* C1: in both simulators the balance sequence and the label sequence have
\* horizon+1 entries, entry 0 being the present value, where horizon is the
\* value read from the 'period' field.
C1_LengthIsHorizonPlusOne ==
    page \in Simulators =>
        /\ Len(display.balances) = display.horizon + 1
        /\ Len(display.labels) = display.horizon + 1
        /\ Fresh =>
              display.balances[1] = OrElse(parseFloat(inputs.pv), Zero)

\* C2: in both simulators every entry of the balance sequence, entry 0
\* included, is >= 0.
C2_BalancesNonNegative ==
    page \in Simulators =>
        \A i \in 1..Len(display.balances) : RLe(Zero, display.balances[i])

\* balance*(1+capitalRate+dividendRate) - withdrawal for period i of the run
\* shown, from the balance of period i-1
C3PreClamp(i) ==
    LET p == SimParse(inputs)
    IN  RSub(RMul(display.balances[i], RAdd(RAdd(One, p.rc), p.rd)), p.w)

\* the first of the periods 1..k whose balance is negative before clamping
C3FirstNegative(k) ==
    LET neg == {i \in 1..k : RLt(C3PreClamp(i), Zero)}
    IN  IF neg = {} THEN Null ELSE {First(neg)}

\* C3: in the steady-withdrawal simulator the depletion year is the first
\* period whose balance is negative before clamping, after every pass of the
\* loop (so no later pass changes it), and unset when there is no such period.
C3_DepletionIsFirstNegative ==
    page = "portfolio_sim" =>
        LET n == Len(display.balances) - 1
        IN  /\ display.depletionYear = C3FirstNegative(n)
            /\ \A k \in 0..n :
                  SimLoop(SimParse(inputs), k).depletionYear = C3FirstNegative(k)

\* a run whose first period clamps and whose later period clamps again
C3_Witness ==
    /\ page = "portfolio_sim"
    /\ display.depletionYear = {1}
    /\ Len(display.balances) >= 3
    /\ RLt(C3PreClamp(2), Zero)

\* C4: in both simulators the reported depletion period is the first period
\* at which the balance is zero after a positive balance in the period before
\* (the point the chart highlights), and it is reported when there is such a
\* period.
C4_DepletionIsFirstZeroAfterPositive ==
    page \in Simulators =>
        LET b == display.balances
            zeroed == {i \in 1..(Len(b) - 1) :
                          b[i + 1] = Zero /\ RLt(Zero, b[i])}
        IN  /\ zeroed # {} => display.depletionYear = {First(zeroed)}
            /\ display.depletionYear # Null => zeroed # {}

\* depletion year a is not later than b, 'no depletion' being the latest
NotLater(a, b) == b = Null \/ (a # Null /\ First(a) <= First(b))

\* the run shown against the runs on the same fields with another withdrawal
C5Monotone ==
    \A t \in SimTexts("w") :
        RLe(SimParse(inputs).w, SimParse([inputs EXCEPT !.w = t]).w) =>
            NotLater(SimRunSimulation([inputs EXCEPT !.w = t]).depletionYear,
                     display.depletionYear)

\* C5 as stated: with the other fields equal and w1 <= w2, the depletion year
\* of the w2 run is not later than that of the w1 run.
C5_MonotoneInWithdrawal == page = "portfolio_sim" => C5Monotone

\* C5, amended: the same, for runs whose growth factor
\* 1 + capitalRate + dividendRate is not negative.
C5_MonotoneForNonNegativeGrowth ==
    (/\ page = "portfolio_sim"
     /\ RLe(Zero, RAdd(RAdd(One, SimParse(inputs).rc), SimParse(inputs).rd)))
        => C5Monotone

\* a run that depletes in year 3 while a larger withdrawal depletes in year 2
C5_Witness ==
    /\ page = "portfolio_sim"
    /\ RLe(Zero, RAdd(RAdd(One, SimParse(inputs).rc), SimParse(inputs).rd))
    /\ display.depletionYear = {3}
    /\ \E t \in SimTexts("w") :
          /\ RLt(SimParse(inputs).w, SimParse([inputs EXCEPT !.w = t]).w)
          /\ SimRunSimulation([inputs EXCEPT !.w = t]).depletionYear = {2}

C7_ZeroDeviationIsFixed ==
    (/\ page = "sorr"
     /\ Fresh
     /\ inputs.scenario = "random"
     /\ OrElse(parseFloat(inputs.std_dev), Zero) = Zero)
        => LET fixed == SorrRunSimulation([inputs EXCEPT !.scenario = "fixed"],
                                          CHOOSE d \in Draws : TRUE)
           IN  /\ display.balances = fixed.balances
               /\ display.cumulativeWithdrawal = fixed.cumulativeWithdrawal
               /\ display.depletionYear = fixed.depletionYear

\* a stochastic run with deviation 0 made again, with a mean return that is
\* not zero
C7_Witness ==
    /\ page = "sorr"
    /\ Fresh
    /\ inputs.scenario = "random"
    /\ inputs.std_dev = Blank
    /\ inputs.avg_ret # Blank
    /\ before # NoRun
    /\ Len(display.balances) >= 2

\* C8: the target shown for a withdrawal rate loaded from a legacy multiplier
\* m is the target the multiplier-based solver computes for m.
C8_LegacyMultiplierKeepsTarget ==
    (/\ page = "fire"
     /\ parseFloat(legacy) # NaN
     /\ inputs.withdrawal_rate = FireLegacyRate(legacy))
        => display.goal =
              MultCalculateFire([pv |-> inputs.pv, pmt |-> Blank,
                                 monthly_spending |-> inputs.monthly_spending,
                                 r |-> inputs.r, multiplier |-> legacy]).goal

\* C9: with a text in one of the present-value, income and monthly-spending
\* fields and annual spending <= 0 the goal solver shows 'must enter
\* spending' and infinite months.
C9_NoSpendingAsksForSpending ==
    (/\ page = "fire"
     /\ \E id \in {"pv", "income", "monthly_spending"} : inputs[id] # Blank
     /\ RLe(RMul(OrElse(parseFloat(inputs.monthly_spending), Zero), Whole(12)),
            Zero))
        => /\ display.statusOverride = "must enter spending"
           /\ display.months = Infinity
           /\ display.shown = "status"

\* present value 3,000,000 with spending 0
C9_Witness ==
    /\ page = "fire"
    /\ inputs.pv = Num(3000000)
    /\ inputs.monthly_spending = Num(0)
    /\ display.statusOverride = "must enter spending"

\* annual spending and the target annual spending x 100/withdrawalRate of the
\* fields
C10Spending ==
    RMul(OrElse(parseFloat(inputs.monthly_spending), Zero), Whole(12))
C10Target ==
    RMul(C10Spending,
         RDiv(Hundred, OrElse(parseFloat(inputs.withdrawal_rate),
                              Whole(FireDefaultRate))))

\* C10: with spending > 0 and present value >= target the goal solver shows 0
\* months and 'goal already met', whatever the rate and the contribution.
C10_GoalAlreadyMet ==
    (/\ page = "fire"
     /\ RLt(Zero, C10Spending)
     /\ RLe(C10Target, OrElse(parseFloat(inputs.pv), Zero)))
        => /\ display.statusOverride = "goal already met"
           /\ display.months = Zero
           /\ display.shown = "status"

\* the goal is met with no income and no return
C10_Witness ==
    /\ page = "fire"
    /\ inputs.pv = Num(3000000)
    /\ inputs.monthly_spending = Num(100)
    /\ inputs.income = Blank
    /\ inputs.r = Num(-5)
    /\ display.statusOverride = "goal already met"

\* the parsed present value, annual rate and monthly contribution of the
\* goal solver's fields
GoalPv == OrElse(parseFloat(inputs.pv), Zero)
GoalRate == RDiv(OrElse(parseFloat(inputs.r), Zero), Hundred)
GoalContribution ==
    RSub(OrElse(parseFloat(inputs.income), Zero),
         OrElse(parseFloat(inputs.monthly_spending), Zero))

\* C11: with spending > 0, present value < target, an annual rate <= 0 and a
\* contribution <= 0 the goal solver shows 'unreachable' and infinite months.
C11_NoRateNoContributionIsUnreachable ==
    (/\ page = "fire"
     /\ RLt(Zero, C10Spending)
     /\ RLt(GoalPv, C10Target)
     /\ RLe(GoalRate, Zero)
     /\ RLe(GoalContribution, Zero))
        => /\ display.statusOverride = "unreachable"
           /\ display.months = Infinity
           /\ display.shown = "status"

\* spending above the income, with a negative rate
C11_Witness ==
    /\ page = "fire"
    /\ inputs.pv = Num(1000)
    /\ inputs.income = Num(50)
    /\ inputs.monthly_spending = Num(100)
    /\ inputs.r = Num(-5)
    /\ display.statusOverride = "unreachable"

\* C12: the months of the goal solver are infinite with a status, or a finite
\* number >= 0; never negative or NaN, so displayResults never takes its
\* fallback branch.
C12_MonthsNonNegativeOrInfinite ==
    page = "fire" =>
        /\ \/ /\ display.months = Infinity
              /\ display.statusOverride
                    \in {"computing", "must enter spending", "unreachable"}
           \/ /\ display.months # NaN
              /\ display.months # Infinity
              /\ ~IsNegative(display.months)
        /\ display.shown # "fallback"

\* C13: the horizon of the projection loop of both simulators is >= 1, and it
\* is 30 when the 'period' field is blank, zero or no number.
C13_HorizonPositive ==
    page \in Simulators =>
        /\ display.horizon >= 1
        /\ (Fresh /\ parseInt(inputs.period) \in {NaN, Zero}) =>
              display.horizon = 30

\* a field that holds no number, filled with the number d
Filled(f, d) == IF parseFloat(f) = NaN THEN Num(d) ELSE f

\* the fields ids of the form in, filled with d where they hold no number
FilledIn(in, ids, d) ==
    [id \in DOMAIN in |-> IF id \in ids THEN Filled(in[id], d) ELSE in[id]]

\* the result shown has the shape of a result of the page
C14Shape ==
    IF page \in Simulators
    THEN /\ Len(display.balances) >= 1
         /\ Len(display.labels) = Len(display.balances)
         /\ display.finalBalance = display.balances[Len(display.balances)]
         /\ display.status
               \in {"depletes", "lasts forever", "keeps growing", "declines"}
    ELSE /\ display.statusOverride
               \in {"none", "computing", "must enter spending",
                    "goal already met", "unreachable"}
         /\ display.shown \in {"status", "fallback", "date"}
         /\ display.statusOverride = "none" <=> display.shown # "status"

\* the result shown is the result for the fields that hold no number filled
\* with 0, or with the default 30, 4 or 25
C14Defaults ==
    CASE page = "portfolio_sim" ->
            display =
                SimRunSimulation(
                    FilledIn(FilledIn(inputs, {"pv", "rc", "rd", "w"}, 0),
                             {"period"}, 30))
      [] page = "sorr" ->
            Fresh =>
                \E draws \in DrawsFor(inputs) :
                    display =
                        SorrRunSimulation(
                            FilledIn(FilledIn(inputs,
                                         {"pv", "w", "inf", "avg_ret", "std_dev"},
                                         0),
                                     {"period"}, 30),
                            draws)
      [] page = "fire" ->
            /\ display =
                  calculateFire(
                      FilledIn(FilledIn(inputs, {"r"}, 0),
                               {"withdrawal_rate"}, 4))
            /\ display.annualSpending =
                  RMul(parseFloat(Filled(inputs.monthly_spending, 0)), Whole(12))
            /\ display.savings =
                  RSub(parseFloat(Filled(inputs.income, 0)),
                       parseFloat(Filled(inputs.monthly_spending, 0)))
      [] page = "fire_multiplier" ->
            display =
                MultCalculateFire(
                    FilledIn(FilledIn(inputs, {"r"}, 0), {"multiplier"}, 25))

\* C14: every run of a calculator shows a result (a balance series or months,
\* with a status), and a field that is blank or no number counts as 0 or as
\* its default (period 30, withdrawal rate 4).
C14_AlwaysAResultWithDefaults ==
    page \in Calculators => (C14Shape /\ C14Defaults)

\* the simulator run on a form whose fields are all blank but a withdrawal
\* that is no number
C14_Witness ==
    /\ page = "portfolio_sim"
    /\ inputs.w = Junk
    /\ inputs.period = Blank
    /\ inputs.pv = Blank
    /\ Len(display.balances) = 31

\* the return of period t of the reference recurrence
C15Return(t, scenario, mean) ==
    IF scenario = "bad" /\ t = 1 THEN Norm(-15, 100)
    ELSE IF scenario = "bad" /\ t = 2 THEN Norm(-10, 100)
    ELSE IF scenario = "bad" /\ t = 3 THEN Norm(-5, 100)
    ELSE mean

\* one period of the reference recurrence
C15Step(s, r, inflation) ==
    LET withdrawn ==
            IF RLe(s.nominal, s.balance) THEN s.nominal
            ELSE RMax(Zero, s.balance)
        balance == RMax(Zero, RMul(RSub(s.balance, withdrawn), RAdd(One, r)))
    IN  [t |-> s.t + 1,
         balance |-> balance,
         nominal |-> RMul(s.nominal, RAdd(One, inflation)),
         cumulative |-> RAdd(s.cumulative, withdrawn),
         balances |-> Append(s.balances, balance)]

\* the reference recurrence for the periods s.t..horizon
RECURSIVE C15Reference(_, _, _, _, _)
C15Reference(s, horizon, scenario, mean, inflation) ==
    IF s.t > horizon THEN s
    ELSE C15Reference(C15Step(s, C15Return(s.t, scenario, mean), inflation),
                      horizon, scenario, mean, inflation)

\* C15: for the fixed and the stressed scenario the balances and the
\* cumulative withdrawal of the analyzer are those of the reference
\* recurrence: withdraw the nominal amount or what is left, grow the rest by
\* the return of the period, floor at zero, escalate the nominal amount.
C15_AnalyzerFollowsRecurrence ==
    (page = "sorr" /\ Fresh /\ inputs.scenario \in {"fixed", "bad"}) =>
        \A p \in {SorrParse(inputs)} :
            \A ref \in {C15Reference([t |-> 1, balance |-> p.pv,
                                      nominal |-> p.wInitial,
                                      cumulative |-> Zero,
                                      balances |-> <<p.pv>>],
                                     p.period, inputs.scenario, p.avgRet,
                                     p.inf)} :
                /\ display.balances = ref.balances
                /\ display.cumulativeWithdrawal = ref.cumulative

\* the nominal withdrawal of period t: the initial one, escalated t-1 times
C16Nominal(t) ==
    RMul(SorrParse(inputs).wInitial,
         RPow(RAdd(One, SorrParse(inputs).inf), t - 1))

\* the periods of the run shown in which less than the nominal withdrawal was
\* withdrawn because the balance did not cover it
C16Under ==
    {t \in 1..(Len(display.balances) - 1) :
        /\ RLt(display.balances[t], C16Nominal(t))
        /\ RLt(RMax(Zero, display.balances[t]), C16Nominal(t))}

\* C16: the depletion period of the analyzer is the first period in which
\* less than the nominal withdrawal was withdrawn for lack of balance, and it
\* is recorded whenever there is such a period.
C16_DepletionIsFirstUnderWithdrawal ==
    (page = "sorr" /\ Fresh) =>
        display.depletionYear =
            IF C16Under = {} THEN Null ELSE {First(C16Under)}

\* C17: with a period before the final one, the sustainability verdict of
\* the steady-withdrawal simulator is true exactly when the final balance is
\* not below the balance of the period before, and 'lasts forever' is shown
\* only with a true verdict and no depletion year.
C17_VerdictIsFinalNotBelowPrevious ==
    page = "portfolio_sim" =>
        LET n == Len(display.balances)
        IN  /\ n >= 2 =>
                  (display.isGrowing <=>
                      RLe(display.balances[n - 1], display.balances[n]))
            /\ display.status = "lasts forever" =>
                  (display.isGrowing /\ display.depletionYear = Null)
            /\ (display.isGrowing /\ display.depletionYear = Null) =>
                  display.status = "lasts forever"

\* a run whose final balance equals the one before, shown as lasting forever
C17_Witness ==
    /\ page = "portfolio_sim"
    /\ Len(display.balances) >= 3
    /\ display.balances[Len(display.balances)]
          = display.balances[Len(display.balances) - 1]
    /\ RLt(Zero, display.finalBalance)
    /\ display.status = "lasts forever"

\* the outcome of the cases (a) blank, (b) spending <= 0, (c) present value
\* >= target, (d) solve, taken in this order, is the outcome shown
C18InOrder(blank) ==
    IF blank
    THEN display.statusOverride = "computing" /\ display.months = Infinity
    ELSE IF RLe(C10Spending, Zero)
    THEN display.statusOverride = "must enter spending"
    ELSE IF RLe(C10Target, GoalPv)
    THEN display.statusOverride = "goal already met"
    ELSE display.statusOverride \in {"none", "unreachable"}

\* C18 as stated: the goal solver takes its cases in the order (a) all raw
\* input fields blank, (b), (c), (d), and shows 'computing' with infinite
\* months in case (a).
C18_CasesInOrderAllFieldsBlank ==
    page = "fire" => C18InOrder(\A id \in FireFieldIds : inputs[id] = Blank)

\* C18, amended: the same, case (a) being that the present-value, income and
\* monthly-spending fields are blank, whatever the rate and the withdrawal
\* rate fields hold.
C18_CasesInOrderThreeFieldsBlank ==
    page = "fire" =>
        C18InOrder(\A id \in {"pv", "income", "monthly_spending"} :
                      inputs[id] = Blank)

\* 'computing' is shown for a form that holds a rate only
C18_Witness ==
    /\ page = "fire"
    /\ inputs.pv = Blank
    /\ inputs.income = Blank
    /\ inputs.monthly_spending = Blank
    /\ inputs.r = Num(-5)
    /\ display.statusOverride = "computing"
    /\ display.months = Infinity

\* C19: with spending > 0, present value < target, an annual rate <= 0 and a
\* contribution > 0 the months are (target - present value) / contribution,
\* so present value + months x contribution = target, and no status is set.
C19_LinearCase ==
    (/\ page = "fire"
     /\ RLt(Zero, C10Spending)
     /\ RLt(GoalPv, C10Target)
     /\ RLe(GoalRate, Zero)
     /\ RLt(Zero, GoalContribution))
        => /\ display.statusOverride = "none"
           /\ display.months = RDiv(RSub(C10Target, GoalPv), GoalContribution)
           /\ RAdd(GoalPv, RMul(display.months, GoalContribution)) = C10Target
           /\ display.shown = "date"

\* 29,000 to go at 2,000 a month
C19_Witness ==
    /\ page = "fire"
    /\ inputs.pv = Num(1000)
    /\ inputs.income = Num(2100)
    /\ inputs.monthly_spending = Num(100)
    /\ inputs.r = Num(-5)
    /\ inputs.withdrawal_rate = Num(4)
    /\ display.months = Norm(29, 2)

\* the effective monthly rate i, and c / i for the contribution c
C20MonthlyRate == RSub(Root12(RAdd(One, GoalRate)), One)
C20Annuity == RDiv(GoalContribution, C20MonthlyRate)

\* months is a finite number > 0
C20FinitePositive(m) ==
    IF Len(m) = 4 THEN m[1] > m[2] ELSE m[2] > 0 /\ m[1] > 0

\* C20: with spending > 0, present value < target and an annual rate > 0 the
\* goal solver shows 'unreachable' and infinite months exactly when
\* goal + c/i <= 0 or pv + c/i <= 0, and otherwise the months
\* ln((goal + c/i) / (pv + c/i)) / ln(1 + i), a finite number > 0.
C20_CompoundCase ==
    (/\ page = "fire"
     /\ RLt(Zero, C10Spending)
     /\ RLt(GoalPv, C10Target)
     /\ RLt(Zero, GoalRate))
        => IF \/ RLe(RAdd(C10Target, C20Annuity), Zero)
              \/ RLe(RAdd(GoalPv, C20Annuity), Zero)
           THEN /\ display.statusOverride = "unreachable"
                /\ display.months = Infinity
           ELSE /\ display.statusOverride = "none"
                /\ display.months =
                      LogQuotient(RDiv(RAdd(C10Target, C20Annuity),
                                       RAdd(GoalPv, C20Annuity)),
                                  RAdd(One, C20MonthlyRate))
                /\ C20FinitePositive(display.months)

(***************************************************************************)
(* Properties of the handlers.                                             *)
(***************************************************************************)
\* the fixed default of a withdrawal mode
C21Default(wType) == IF wType = "amount" THEN Num(40000) ELSE Num(4)

\* the fields an input event leaves when it finds the fields 'found'
C21After(found) ==
    IF found.w_type # lastWType
    THEN [found EXCEPT !.w = C21Default(found.w_type)]
    ELSE found

\* the initial withdrawal of the fields: present value x w/100 in rate mode,
\* w in amount mode
C21Initial(in) ==
    LET pv == OrElse(parseFloat(in.pv), Zero)
        w == OrElse(parseFloat(in.w), Zero)
    IN  IF in.w_type = "rate" THEN RMul(pv, RDiv(w, Hundred)) ELSE w

\* what a run of one year withdraws from the present value
C21FirstYear(in) ==
    LET pv == OrElse(parseFloat(in.pv), Zero)
    IN  IF RLe(C21Initial(in), pv) THEN C21Initial(in) ELSE RMax(Zero, pv)

\* C21: an input event of the analyzer that finds w_type different from the
\* last seen type overwrites the w field with the default of the type (40000
\* for amount, 4 for rate) before the simulation reads it; one that finds
\* w_type unchanged leaves the w field as it found it; the last seen type is
\* the type of the fields afterwards; and a run withdraws present value x
\* w/100 in rate mode and w in amount mode.
C21_ModeSwitchResetsWithdrawal ==
    [][page = "sorr" =>
        /\ \E id \in SorrFieldIds : \E t \in SorrTexts(id) :
              inputs' = C21After([inputs EXCEPT ![id] = t])
        /\ lastWType' = inputs'.w_type
        /\ (unrun' = 0 /\ inputs'.period = Num(1)) =>
              display'.cumulativeWithdrawal = C21FirstYear(inputs')]_vars

\* a switch to rate mode has put 4 in the w field and the run of one year
\* has withdrawn 4% of the present value
C21_Witness ==
    /\ page = "sorr"
    /\ Fresh
    /\ lastWType = "rate"
    /\ inputs.w_type = "rate"
    /\ inputs.w = Num(4)
    /\ inputs.pv = Num(100000)
    /\ inputs.period = Num(1)
    /\ display.cumulativeWithdrawal = Whole(4000)

\* the result of the page's computation on the fields as they are
C22ResultCurrent ==
    CASE page = "portfolio_sim" -> display = SimRunSimulation(inputs)
      [] page = "sorr" ->
            \E draws \in DrawsFor(inputs) :
                display = SorrRunSimulation(inputs, draws)
      [] page = "fire" -> display = calculateFire(inputs)
      [] page = "fire_multiplier" -> display = MultCalculateFire(inputs)

\* the field is empty, or holds the default that the goal solvers leave out
\* of the query
C22LeftOut(id) ==
    IF id \in {"w_type", "scenario"} THEN FALSE
    ELSE \/ inputs[id] = Blank
         \/ page = "fire" /\ id = "withdrawal_rate" /\ inputs[id] = Num(4)
         \/ page = "fire_multiplier" /\ id = "multiplier"
                /\ inputs[id] = Num(25)

\* the query echoes the fields as they are
C22QueryCurrent ==
    /\ DOMAIN url \subseteq DOMAIN inputs
    /\ \A id \in DOMAIN inputs :
          IF id \in DOMAIN url THEN url[id] = inputs[id] /\ ~C22LeftOut(id)
          ELSE C22LeftOut(id)

\* C22 as stated: on every calculator, after any input event the displayed
\* result and the query of the URL are those of the current field values.
C22_ResultAndQueryAlwaysCurrent ==
    page \in Calculators => (C22ResultCurrent /\ C22QueryCurrent)

\* C22: the displayed result and the query of the URL are those of the
\* current field values after every input event, except an input event of
\* the analyzer that finds the stochastic scenario selected, which runs
\* nothing.
C22_ResultAndQueryCurrentUnlessStochastic ==
    page \in Calculators =>
        \/ page = "sorr" /\ inputs.scenario = "random" /\ ~Fresh
        \/ C22ResultCurrent /\ C22QueryCurrent

\* an input event of the analyzer has switched the mode, and the result and
\* the query are those of the overwritten w field
C22_Witness ==
    /\ page = "sorr"
    /\ inputs.scenario = "bad"
    /\ inputs.w_type = "amount"
    /\ inputs.w = Num(40000)
    /\ inputs.pv = Num(100000)
    /\ url.w = Num(40000)
    /\ display.depletionYear # Null

\* the withdrawal the run starts from is >= 0 and, on the analyzer, the
\* inflation is >= -100%
C23NonNegative ==
    IF page = "portfolio_sim" THEN RLe(Zero, SimParse(inputs).w)
    ELSE /\ RLe(Zero, SorrParse(inputs).wInitial)
         /\ RLe(Whole(-1), SorrParse(inputs).inf)

\* C23: in both simulators, with a withdrawal >= 0 (and an inflation >= -100%
\* on the analyzer), every entry of the balance sequence after an entry that
\* is 0 is 0.
C23_ZeroIsAbsorbing ==
    (page \in Simulators /\ Fresh /\ C23NonNegative) =>
        \A i \in 1..Len(display.balances) :
            \A j \in i..Len(display.balances) :
                display.balances[i] = Zero => display.balances[j] = Zero

\* the header carries exactly one of navbar-visible and navbar-hidden
C28OneClass(classes) == ("navbar-visible" \in classes) # ("navbar-hidden" \in classes)

\* C28: the header gets navbar-hidden only from an updateNavbar run on a
\* mobile viewport that observes a scroll position greater than 0 and
\* greater than the recorded one; every updateNavbar run on a non-mobile
\* viewport or at scroll position 0 leaves it navbar-visible; and the header
\* always carries exactly one of the two classes.
C28_HiddenOnlyOnMobileScrollDown ==
    /\ (page = "navbar" => C28OneClass(navbar.classes))
    /\ [][page = "navbar" =>
            /\ ("navbar-hidden" \in navbar'.classes
                    /\ "navbar-hidden" \notin navbar.classes) =>
                  /\ navbar'.frames < navbar.frames
                  /\ navbar.matches
                  /\ navbar.scrollY > 0
                  /\ navbar.scrollY > navbar.lastScrollTop
            /\ (navbar'.frames < navbar.frames
                    /\ (~navbar.matches \/ navbar.scrollY = 0)) =>
                  "navbar-visible" \in navbar'.classes
            /\ C28OneClass(navbar'.classes)]_vars

\* a frame on a mobile viewport has hidden the header
C28_Witness ==
    /\ page = "navbar"
    /\ "navbar-hidden" \in navbar.classes
    /\ navbar.matches
    /\ navbar.lastScrollTop = navbar.scrollY

\* C29: whenever ticking is true an updateNavbar animation frame is still
\* pending, for every interleaving of scroll events, media-query changes and
\* frame callbacks.
C29_TickingHasPendingFrame ==
    page = "navbar" => (navbar.ticking => navbar.frames > 0)

\* a scroll event has raised ticking while the frame of a media-query change
\* is pending too
C29_Witness ==
    /\ page = "navbar"
    /\ navbar.ticking
    /\ navbar.frames = 2

\* the last event called requestReload: a poll that found the popup closed,
\* or a same-origin 'social-login-complete' message
C24Requested(e) ==
    \/ e.event = "poll"
    \/ /\ e.event = "message"
       /\ e.origin = "own"
       /\ e.data = [type |-> "social-login-complete"]

\* C24: a reload requested through requestReload while the login modal is
\* open does not reload the page at that moment but sets pendingReload; the
\* page then reloads at the next closeModal, which clears pendingReload; a
\* reload requested while the modal is not open happens at once.
C24_ReloadDeferredWhileModalOpen ==
    [][page = "login" =>
        /\ C24Requested(lastEvent') =>
              IF modal.isOpen
              THEN /\ ~lastEvent'.reloaded
                   /\ modal'.isOpen
                   /\ modal'.pendingReload
              ELSE lastEvent'.reloaded
        /\ lastEvent'.event \in {"close", "link", "navigate"} =>
              /\ lastEvent'.reloaded = modal.pendingReload
              /\ ~modal'.pendingReload
              /\ ~modal'.isOpen
        /\ (modal.pendingReload /\ ~lastEvent'.reloaded) =>
              modal'.pendingReload /\ modal'.isOpen]_vars

\* the popup was closed while the modal was open again: the reload waits
C24_Witness ==
    /\ page = "login"
    /\ lastEvent.event = "poll"
    /\ modal.isOpen
    /\ modal.pendingReload

\* C25: a message event whose origin is not the page's own never causes a
\* page reload, whatever its data is.
C25_ForeignMessageNeverReloads ==
    (page = "login" /\ lastEvent.event = "message"
        /\ lastEvent.origin # "own")
        => ~lastEvent.reloaded

\* the widget shows the payload: its selection and its counts
C26Shows(payload) ==
    /\ widget.selected = payload.selected
    /\ widget.pressed = {payload.selected} \cap ReactionKeys
    /\ \A button \in ReactionKeys :
          widget.counts[button] =
              IF button \in DOMAIN payload.counts
              THEN payload.counts[button] ELSE 0

\* C26: when two reaction cards are clicked before the first response
\* arrives, then after both responses have arrived the widget shows the
\* selection and the counts of the response to the later click, whatever
\* order the responses arrived in.
C26_LaterClickWins ==
    (/\ page = "reaction"
     /\ Len(requests) = 2
     /\ requests[1].state = "ok"
     /\ requests[2].state = "ok")
        => C26Shows(requests[2].payload)

\* the step is the failure of a request
C27Failed ==
    \E i \in Pending(requests) :
        /\ i <= Len(requests')
        /\ requests'[i].state \in Failures

\* the step is a click: one more request is waiting
C27Clicked == Cardinality(Pending(requests')) > Cardinality(Pending(requests))

\* C27: a reaction POST that fails (network error, non-OK status or
\* unparseable body) leaves dataset.selected, the pressed state of every
\* button and every displayed count unchanged, only the note changes; and a
\* click on the selected reaction sends an empty reaction while a click on
\* another sends the key of that reaction.
C27_FailureKeepsSelectionAndCounts ==
    [][page = "reaction" =>
        /\ C27Failed =>
              /\ widget'.selected = widget.selected
              /\ widget'.pressed = widget.pressed
              /\ widget'.counts = widget.counts
              /\ widget'.note = Note("error", "")
        /\ C27Clicked =>
              LET sent == requests'[Len(requests')]
              IN  sent.reaction =
                      IF sent.key = widget.selected THEN "" ELSE sent.key]_vars

\* a click on the selected reaction has sent the empty reaction, the POST has
\* failed, and the reaction is still selected
C27_Witness ==
    /\ page = "reaction"
    /\ Len(requests) = 1
    /\ requests[1].state = "unparseable"
    /\ requests[1].reaction = ""
    /\ widget.selected = requests[1].key
    /\ widget.pressed = {requests[1].key}
    /\ widget.note = Note("error", "")

====
